---- MODULE Spec2Model ----
(***************************************************************************)
(* Flaky test detector: CTRF report parsing (CTRFParser), the detection    *)
(* session (FlakyDetector.runDetection and its helpers) and the per-test   *)
(* status shown by ReportGenerator.                                        *)
(*                                                                         *)
(* Numbers.  JavaScript numbers are modelled by exact rationals            *)
(* [n |-> numerator, d |-> denominator], kept in lowest terms with d > 0.  *)
(* For the run counts reached here a quotient failed/totalRuns and a       *)
(* decimal threshold differ by far more than one unit in the last place    *)
(* whenever they differ at all, so the exact comparison and the double     *)
(* comparison agree.  The coefficient of variation is sqrt(variance)/avg;  *)
(* the field durationVariance carries that non-negative value by its       *)
(* square (a rational), and every comparison with a threshold is made on   *)
(* the squares.  Confidence is built from the literals 0.4, 0.3, 0.3 and   *)
(* totalRuns/20 and is carried as a rational as well.                      *)
(*                                                                         *)
(* Optional fields of a CTRF test (suite?, filePath?, message?, tags?,     *)
(* customFields?) are sequences of length 0 (absent) or 1 (present).       *)
(***************************************************************************)
EXTENDS Integers, Sequences, FiniteSets, TLC

VARIABLES
    config,         \* FlakyDetector.config
    allTestRuns,    \* FlakyDetector.allTestRuns
    numberOfRuns,   \* argument of runDetection
    i,              \* loop variable of runDetection
    pc,             \* position in runDetection
    reportFile,     \* content of ctrf/ctrf-report.json, <<>> when the file does not exist
    statistics,     \* value returned by runDetection, <<>> before it returns
    console,        \* what collectRunResults reported for each cycle so far
    testProcess,    \* what the test process of the current cycle did, until its results are collected
    exitCode,       \* argument of process.exit in main, -1 while main is running
    fn,             \* arguments of a direct call of isTestFlaky / calculateConfidence
    ret             \* what the direct call returned so far

vars == <<config, allTestRuns, numberOfRuns, i, pc, reportFile, statistics, console,
          testProcess, exitCode, fn, ret>>

-----------------------------------------------------------------------------
(* Bounds *)

MaxRuns == 2

MaxTests == 2

MaxTotalRuns == 22

\* longest test list whose report may lack its summary or carry a wrong one
MaxTestsBadSummary == 1

-----------------------------------------------------------------------------
(* Exact rational arithmetic standing for JavaScript numbers *)

Abs(x) == IF x < 0 THEN -x ELSE x

RECURSIVE GCD(_, _)
GCD(a, b) == IF b = 0 THEN a ELSE GCD(b, a % b)

Rat(n, d) ==
    LET s == IF d < 0 THEN -1 ELSE 1
        g == GCD(Abs(n), Abs(d))
    IN  [n |-> (s * n) \div g, d |-> (s * d) \div g]

Num(k) == [n |-> k, d |-> 1]

RAdd(a, b) == Rat(a.n * b.d + b.n * a.d, a.d * b.d)

RSub(a, b) == Rat(a.n * b.d - b.n * a.d, a.d * b.d)

RMul(a, b) == Rat(a.n * b.n, a.d * b.d)

RDiv(a, b) == Rat(a.n * b.d, a.d * b.n)

RLt(a, b) == a.n * b.d < b.n * a.d

RLe(a, b) == a.n * b.d <= b.n * a.d

RMin(a, b) == IF RLt(b, a) THEN b ELSE a

\* sqrt(q) > t, for q >= 0
RootGt(q, t) == IF t.n < 0 THEN TRUE ELSE RLt(RMul(t, t), q)

RECURSIVE RSum(_)
RSum(s) == IF s = <<>> THEN Num(0) ELSE RAdd(Head(s), RSum(Tail(s)))

RECURSIVE Distinct(_)
Distinct(s) ==
    IF s = <<>> THEN <<>>
    ELSE LET init == Distinct(SubSeq(s, 1, Len(s) - 1))
             last == s[Len(s)]
         IN  IF \E k \in 1..Len(init) : init[k] = last THEN init
             ELSE Append(init, last)

\* tests.filter(t => t.status === status).length
countStatus(tests, status) == Len(SelectSeq(tests, LAMBDA t : t.status = status))

-----------------------------------------------------------------------------
(* CTRFParser *)

Truthy(opt) == opt # <<>> /\ opt[1] # ""

getTestId_noDefaults(test) ==
    LET suite == IF test.suite # <<>> THEN test.suite[1] ELSE "undefined"
        file  == IF test.filePath # <<>> THEN test.filePath[1] ELSE "undefined"
    IN  file \o "::" \o suite \o "::" \o test.name

getTestId(test) ==
    LET suite == IF Truthy(test.suite) THEN test.suite[1] ELSE "default"
        file  == IF Truthy(test.filePath) THEN test.filePath[1] ELSE "unknown"
    IN  file \o "::" \o suite \o "::" \o test.name

\* the Map is an insertion-ordered sequence of entries [testId, tests]
RECURSIVE groupTestsByIdentifier_resets(_)
groupTestsByIdentifier_resets(tests) ==
    IF tests = <<>> THEN <<>>
    ELSE LET groupedTests == groupTestsByIdentifier_resets(SubSeq(tests, 1, Len(tests) - 1))
             test   == tests[Len(tests)]
             testId == getTestId(test)
             withKey == IF \E k \in 1..Len(groupedTests) : groupedTests[k].testId = testId
                        THEN groupedTests
                        ELSE Append(groupedTests, [testId |-> testId, tests |-> <<>>])
         IN  [k \in 1..Len(withKey) |->
                IF withKey[k].testId = testId
                THEN [withKey[k] EXCEPT !.tests = <<test>>]
                ELSE withKey[k]]

RECURSIVE groupTestsByIdentifier(_)
groupTestsByIdentifier(tests) ==
    IF tests = <<>> THEN <<>>
    ELSE LET groupedTests == groupTestsByIdentifier(SubSeq(tests, 1, Len(tests) - 1))
             test   == tests[Len(tests)]
             testId == getTestId(test)
             withKey == IF \E k \in 1..Len(groupedTests) : groupedTests[k].testId = testId
                        THEN groupedTests
                        ELSE Append(groupedTests, [testId |-> testId, tests |-> <<>>])
         IN  [k \in 1..Len(withKey) |->
                IF withKey[k].testId = testId
                THEN [withKey[k] EXCEPT !.tests = Append(@, test)]
                ELSE withKey[k]]

positiveDurations_all(tests) ==
    [k \in 1..Len(tests) |-> tests[k].duration]

positiveDurations(tests) ==
    LET all == [k \in 1..Len(tests) |-> tests[k].duration]
    IN  SelectSeq(all, LAMBDA d : d > 0)

SeqMin(s) == CHOOSE x \in {s[k] : k \in 1..Len(s)} : \A k \in 1..Len(s) : x <= s[k]

SeqMax(s) == CHOOSE x \in {s[k] : k \in 1..Len(s)} : \A k \in 1..Len(s) : x >= s[k]

calculateStatistics_passedIsNotFailed(tests) ==
    LET durations == positiveDurations(tests)
        failedWithMessage == SelectSeq(tests, LAMBDA t : t.status = "failed" /\ Truthy(t.message))
    IN  [totalRuns |-> Len(tests),
         passed  |-> Len(tests) - countStatus(tests, "failed"),
         failed  |-> countStatus(tests, "failed"),
         skipped |-> countStatus(tests, "skipped"),
         averageDuration |->
            IF Len(durations) > 0
            THEN RDiv(RSum([k \in 1..Len(durations) |-> Num(durations[k])]), Num(Len(durations)))
            ELSE Num(0),
         minDuration |-> IF Len(durations) > 0 THEN SeqMin(durations) ELSE 0,
         maxDuration |-> IF Len(durations) > 0 THEN SeqMax(durations) ELSE 0,
         failureMessages |-> [k \in 1..Len(failedWithMessage) |-> failedWithMessage[k].message[1]]]

calculateStatistics_allMessages(tests) ==
    LET durations == positiveDurations(tests)
        failedWithMessage == SelectSeq(tests, LAMBDA t : Truthy(t.message))
    IN  [totalRuns |-> Len(tests),
         passed  |-> countStatus(tests, "passed"),
         failed  |-> countStatus(tests, "failed"),
         skipped |-> countStatus(tests, "skipped"),
         averageDuration |->
            IF Len(durations) > 0
            THEN RDiv(RSum([k \in 1..Len(durations) |-> Num(durations[k])]), Num(Len(durations)))
            ELSE Num(0),
         minDuration |-> IF Len(durations) > 0 THEN SeqMin(durations) ELSE 0,
         maxDuration |-> IF Len(durations) > 0 THEN SeqMax(durations) ELSE 0,
         failureMessages |-> [k \in 1..Len(failedWithMessage) |-> failedWithMessage[k].message[1]]]

calculateStatistics(tests) ==
    LET durations == positiveDurations(tests)
        failedWithMessage == SelectSeq(tests, LAMBDA t : t.status = "failed" /\ Truthy(t.message))
    IN  [totalRuns |-> Len(tests),
         passed  |-> countStatus(tests, "passed"),
         failed  |-> countStatus(tests, "failed"),
         skipped |-> countStatus(tests, "skipped"),
         averageDuration |->
            IF Len(durations) > 0
            THEN RDiv(RSum([k \in 1..Len(durations) |-> Num(durations[k])]), Num(Len(durations)))
            ELSE Num(0),
         minDuration |-> IF Len(durations) > 0 THEN SeqMin(durations) ELSE 0,
         maxDuration |-> IF Len(durations) > 0 THEN SeqMax(durations) ELSE 0,
         failureMessages |-> [k \in 1..Len(failedWithMessage) |-> failedWithMessage[k].message[1]]]

-----------------------------------------------------------------------------
(* FlakyDetector: statistics, classification, confidence *)

defaultConfig ==
    [minRuns |-> 10,
     flakyThresholdMin |-> Rat(1, 10),
     flakyThresholdMax |-> Rat(9, 10),
     durationVarianceThreshold |-> Rat(5, 10)]

calculateDurationVariance_sample(tests) ==
    LET durations == positiveDurations(tests)
        len == Len(durations)
        avg == RDiv(RSum([k \in 1..len |-> Num(durations[k])]), Num(len))
        variance ==
            RDiv(RSum([k \in 1..len |->
                        RMul(RSub(Num(durations[k]), avg), RSub(Num(durations[k]), avg))]),
                 Num(len - 1))
    IN  IF len < 2 THEN Num(0)
        ELSE IF RLt(Num(0), avg) THEN RDiv(variance, RMul(avg, avg)) ELSE Num(0)

calculateDurationVariance_aroundFirst(tests) ==
    LET durations == positiveDurations(tests)
        len == Len(durations)
        avg == RDiv(RSum([k \in 1..len |-> Num(durations[k])]), Num(len))
        variance ==
            RDiv(RSum([k \in 1..len |->
                        RMul(RSub(Num(durations[k]), Num(durations[1])),
                             RSub(Num(durations[k]), Num(durations[1])))]),
                 Num(len))
    IN  IF len < 2 THEN Num(0)
        ELSE IF RLt(Num(0), avg) THEN RDiv(variance, RMul(avg, avg)) ELSE Num(0)

\* the square of the coefficient of variation (see the note on numbers)
calculateDurationVariance(tests) ==
    LET durations == positiveDurations(tests)
        len == Len(durations)
        avg == RDiv(RSum([k \in 1..len |-> Num(durations[k])]), Num(len))
        variance ==
            RDiv(RSum([k \in 1..len |->
                        RMul(RSub(Num(durations[k]), avg), RSub(Num(durations[k]), avg))]),
                 Num(len))
    IN  IF len < 2 THEN Num(0)
        ELSE IF RLt(Num(0), avg) THEN RDiv(variance, RMul(avg, avg)) ELSE Num(0)

isTestFlaky_inclusive(cfg, totalRuns, failureRate, durationVariance) ==
    IF totalRuns < cfg.minRuns THEN FALSE
    ELSE LET failureRateFlaky == /\ RLe(cfg.flakyThresholdMin, failureRate)
                                 /\ RLe(failureRate, cfg.flakyThresholdMax)
             timingFlaky == RootGt(durationVariance, cfg.durationVarianceThreshold)
         IN  failureRateFlaky \/ timingFlaky

isTestFlaky_timingNeedsRate(cfg, totalRuns, failureRate, durationVariance) ==
    IF totalRuns < cfg.minRuns THEN FALSE
    ELSE LET failureRateFlaky == /\ RLt(cfg.flakyThresholdMin, failureRate)
                                 /\ RLt(failureRate, cfg.flakyThresholdMax)
             timingFlaky == /\ RootGt(durationVariance, cfg.durationVarianceThreshold)
                            /\ RLt(failureRate, cfg.flakyThresholdMax)
         IN  failureRateFlaky \/ timingFlaky

isTestFlaky(cfg, totalRuns, failureRate, durationVariance) ==
    IF totalRuns < cfg.minRuns THEN FALSE
    ELSE LET failureRateFlaky == /\ RLt(cfg.flakyThresholdMin, failureRate)
                                 /\ RLt(failureRate, cfg.flakyThresholdMax)
             timingFlaky == RootGt(durationVariance, cfg.durationVarianceThreshold)
         IN  failureRateFlaky \/ timingFlaky

calculateConfidence_uncapped(cfg, totalRuns, failureRate, durationVariance) ==
    LET runConfidence == RMul(Rat(totalRuns, 20), Rat(4, 10))
        pattern == IF RLt(Rat(2, 10), failureRate) /\ RLt(failureRate, Rat(8, 10))
                   THEN Rat(3, 10) ELSE Num(0)
        timing  == IF RootGt(durationVariance, cfg.durationVarianceThreshold)
                   THEN Rat(3, 10) ELSE Num(0)
    IN  RAdd(RAdd(runConfidence, pattern), timing)

calculateConfidence_inclusive(cfg, totalRuns, failureRate, durationVariance) ==
    LET runConfidence == RMul(RMin(Rat(totalRuns, 20), Num(1)), Rat(4, 10))
        pattern == IF RLe(Rat(2, 10), failureRate) /\ RLe(failureRate, Rat(8, 10))
                   THEN Rat(3, 10) ELSE Num(0)
        timing  == IF RootGt(durationVariance, cfg.durationVarianceThreshold)
                   THEN Rat(3, 10) ELSE Num(0)
    IN  RMin(RAdd(RAdd(runConfidence, pattern), timing), Num(1))

calculateConfidence(cfg, totalRuns, failureRate, durationVariance) ==
    LET runConfidence == RMul(RMin(Rat(totalRuns, 20), Num(1)), Rat(4, 10))
        pattern == IF RLt(Rat(2, 10), failureRate) /\ RLt(failureRate, Rat(8, 10))
                   THEN Rat(3, 10) ELSE Num(0)
        timing  == IF RootGt(durationVariance, cfg.durationVarianceThreshold)
                   THEN Rat(3, 10) ELSE Num(0)
    IN  RMin(RAdd(RAdd(runConfidence, pattern), timing), Num(1))

\* stats.totalRuns > 0 ? count / stats.totalRuns : 0
rateOf(count, totalRuns) == IF totalRuns > 0 THEN Rat(count, totalRuns) ELSE Num(0)

calculateTestStatistics_keepsRepeats(cfg, testId, tests) ==
    LET stats == calculateStatistics(tests)
        firstTest == tests[1]
        failureRate == rateOf(stats.failed, stats.totalRuns)
        successRate == rateOf(stats.passed, stats.totalRuns)
        durationVariance == calculateDurationVariance(tests)
    IN  [testId |-> testId,
         name  |-> firstTest.name,
         suite |-> IF Truthy(firstTest.suite) THEN firstTest.suite[1] ELSE "default",
         file  |-> IF Truthy(firstTest.filePath) THEN firstTest.filePath[1] ELSE "unknown",
         totalRuns |-> stats.totalRuns,
         passed  |-> stats.passed,
         failed  |-> stats.failed,
         skipped |-> stats.skipped,
         failureRate |-> failureRate,
         successRate |-> successRate,
         isFlaky |-> isTestFlaky(cfg, stats.totalRuns, failureRate, durationVariance),
         averageDuration |-> stats.averageDuration,
         durationVariance |-> durationVariance,
         failureMessages |-> stats.failureMessages,
         tags |-> IF firstTest.tags # <<>> THEN firstTest.tags[1] ELSE <<>>,
         confidence |-> calculateConfidence(cfg, stats.totalRuns, failureRate, durationVariance)]

calculateTestStatistics_lastTest(cfg, testId, tests) ==
    LET stats == calculateStatistics(tests)
        firstTest == tests[Len(tests)]
        failureRate == rateOf(stats.failed, stats.totalRuns)
        successRate == rateOf(stats.passed, stats.totalRuns)
        durationVariance == calculateDurationVariance(tests)
    IN  [testId |-> testId,
         name  |-> firstTest.name,
         suite |-> IF Truthy(firstTest.suite) THEN firstTest.suite[1] ELSE "default",
         file  |-> IF Truthy(firstTest.filePath) THEN firstTest.filePath[1] ELSE "unknown",
         totalRuns |-> stats.totalRuns,
         passed  |-> stats.passed,
         failed  |-> stats.failed,
         skipped |-> stats.skipped,
         failureRate |-> failureRate,
         successRate |-> successRate,
         isFlaky |-> isTestFlaky(cfg, stats.totalRuns, failureRate, durationVariance),
         averageDuration |-> stats.averageDuration,
         durationVariance |-> durationVariance,
         failureMessages |-> Distinct(stats.failureMessages),
         tags |-> IF firstTest.tags # <<>> THEN firstTest.tags[1] ELSE <<>>,
         confidence |-> calculateConfidence(cfg, stats.totalRuns, failureRate, durationVariance)]

calculateTestStatistics(cfg, testId, tests) ==
    LET stats == calculateStatistics(tests)
        firstTest == tests[1]
        failureRate == rateOf(stats.failed, stats.totalRuns)
        successRate == rateOf(stats.passed, stats.totalRuns)
        durationVariance == calculateDurationVariance(tests)
    IN  [testId |-> testId,
         name  |-> firstTest.name,
         suite |-> IF Truthy(firstTest.suite) THEN firstTest.suite[1] ELSE "default",
         file  |-> IF Truthy(firstTest.filePath) THEN firstTest.filePath[1] ELSE "unknown",
         totalRuns |-> stats.totalRuns,
         passed  |-> stats.passed,
         failed  |-> stats.failed,
         skipped |-> stats.skipped,
         failureRate |-> failureRate,
         successRate |-> successRate,
         isFlaky |-> isTestFlaky(cfg, stats.totalRuns, failureRate, durationVariance),
         averageDuration |-> stats.averageDuration,
         durationVariance |-> durationVariance,
         failureMessages |-> Distinct(stats.failureMessages),
         tags |-> IF firstTest.tags # <<>> THEN firstTest.tags[1] ELSE <<>>,
         confidence |-> calculateConfidence(cfg, stats.totalRuns, failureRate, durationVariance)]

sortsBefore_ascending(a, b) ==
    IF a.isFlaky /\ ~b.isFlaky THEN TRUE
    ELSE IF ~a.isFlaky /\ b.isFlaky THEN FALSE
    ELSE RLt(a.failureRate, b.failureRate)

\* the comparator of the sort in analyzeResults is negative
sortsBefore(a, b) ==
    IF a.isFlaky /\ ~b.isFlaky THEN TRUE
    ELSE IF ~a.isFlaky /\ b.isFlaky THEN FALSE
    ELSE RLt(a.failureRate, b.failureRate) = FALSE /\ a.failureRate # b.failureRate

\* Array.prototype.sort is stable: x goes after every element it does not sort before
RECURSIVE stableSort(_)
stableSort(s) ==
    IF s = <<>> THEN <<>>
    ELSE LET sorted == stableSort(SubSeq(s, 1, Len(s) - 1))
             x == s[Len(s)]
             ahead == {k \in 1..Len(sorted) : sortsBefore(x, sorted[k])}
             pos == IF ahead = {} THEN Len(sorted) + 1
                    ELSE CHOOSE k \in ahead : \A m \in ahead : k <= m
         IN  SubSeq(sorted, 1, pos - 1) \o <<x>> \o SubSeq(sorted, pos, Len(sorted))

analyzeResults(cfg, runs) ==
    LET groupedTests == groupTestsByIdentifier(runs)
    IN  stableSort([k \in 1..Len(groupedTests) |->
                      calculateTestStatistics(cfg, groupedTests[k].testId, groupedTests[k].tests)])

-----------------------------------------------------------------------------
(* ReportGenerator: the Status column of the CSV report (the HTML badge    *)
(* uses the same chain of tests)                                           *)

csvStatus_strict(test) ==
    IF test.isFlaky THEN "Flaky"
    ELSE IF test.failureRate = Num(0) THEN "Stable"
    ELSE IF RLt(Rat(9, 10), test.failureRate) THEN "Failing"
    ELSE "Unstable"

csvStatus_passRate(test) ==
    IF test.successRate = Num(1) THEN "Stable"
    ELSE IF test.isFlaky THEN "Flaky"
    ELSE IF RLe(Rat(9, 10), test.failureRate) THEN "Failing"
    ELSE "Unstable"

csvStatus(test) ==
    IF test.isFlaky THEN "Flaky"
    ELSE IF test.failureRate = Num(0) THEN "Stable"
    ELSE IF RLe(Rat(9, 10), test.failureRate) THEN "Failing"
    ELSE "Unstable"

\* main: the counts of the console's Detection Summary
consoleSummary(stats) ==
    [total   |-> Len(stats),
     stable  |-> Len(SelectSeq(stats, LAMBDA s : ~s.isFlaky /\ s.failureRate = Num(0))),
     flaky   |-> Len(SelectSeq(stats, LAMBDA s : s.isFlaky)),
     failing |-> Len(SelectSeq(stats, LAMBDA s : RLe(Rat(9, 10), s.failureRate)))]

\* generateMarkdownReport: the counts of the Executive Summary
markdownSummary(stats) ==
    [total    |-> Len(stats),
     flaky    |-> Len(SelectSeq(stats, LAMBDA s : s.isFlaky)),
     stable   |-> Len(SelectSeq(stats, LAMBDA s : ~s.isFlaky /\ s.failureRate = Num(0))),
     failing  |-> Len(SelectSeq(stats, LAMBDA s : RLe(Rat(9, 10), s.failureRate))),
     unstable |-> Len(SelectSeq(stats, LAMBDA s : /\ ~s.isFlaky
                                                  /\ RLt(Num(0), s.failureRate)
                                                  /\ RLt(s.failureRate, Rat(9, 10))))]

-----------------------------------------------------------------------------
(* Inputs: the tests a report may list, and what the report file may hold *)

Obs(name, status, duration, suite, filePath, message, tags, customFields) ==
    [name |-> name, status |-> status, duration |-> duration, suite |-> suite,
     filePath |-> filePath, message |-> message, tags |-> tags,
     customFields |-> customFields]

TestPool ==
    { Obs("t", "passed",  100, <<"s">>, <<"f">>, <<>>, <<<<"@slow">>>>, <<>>),
      Obs("t", "failed",  400, <<"s">>, <<"f">>, <<"timeout">>, <<>>, <<[retry |-> 1]>>),
      Obs("t", "skipped", 0,   <<>>, <<>>, <<>>, <<>>, <<>>),
      Obs("t", "pending", 100, <<"a::b">>, <<"f">>, <<"">>, <<>>, <<>>),
      Obs("t", "passed",  400, <<"b">>, <<"f::a">>, <<"note">>, <<>>, <<>>) }

RECURSIVE SeqsUpTo(_, _)
SeqsUpTo(S, n) ==
    IF n = 0 THEN {<<>>}
    ELSE LET shorter == SeqsUpTo(S, n - 1)
         IN  shorter \cup {Append(q, x) : q \in {r \in shorter : Len(r) = n - 1}, x \in S}

TestLists == SeqsUpTo(TestPool, MaxTests)

summaryOf(tests) ==
    [tests   |-> Len(tests),
     passed  |-> countStatus(tests, "passed"),
     failed  |-> countStatus(tests, "failed"),
     skipped |-> countStatus(tests, "skipped")]

\* text of the report file: whether JSON.parse accepts it, and the sections it has
Content(parses, hasResults, summary, tests) ==
    [parses |-> parses, hasResults |-> hasResults, summary |-> summary, tests |-> tests]

FileContents ==
    { Content(FALSE, FALSE, <<>>, <<>>),
      Content(TRUE, FALSE, <<>>, <<>>),
      Content(TRUE, TRUE, <<summaryOf(<<>>)>>, <<>>) }
    \cup { Content(TRUE, TRUE, <<summaryOf(ts)>>, <<ts>>) : ts \in TestLists }
    \cup { Content(TRUE, TRUE, <<>>, <<ts>>) : ts \in SeqsUpTo(TestPool, MaxTestsBadSummary) }
    \cup { Content(TRUE, TRUE, <<summaryOf(<<>>)>>, <<ts>>) :
                ts \in SeqsUpTo(TestPool, MaxTestsBadSummary) \ {<<>>} }

Configs ==
    { defaultConfig,
      [defaultConfig EXCEPT !.minRuns = 2] }

-----------------------------------------------------------------------------
(* CTRFParser.parseReport / extractTests *)

parseReport_rejectsEmpty(jsonContent) ==
    IF ~jsonContent.parses
    THEN [ok |-> FALSE, error |-> "Failed to parse CTRF report: " \o "SyntaxError"]
    ELSE IF ~jsonContent.hasResults \/ jsonContent.tests = <<>> \/ jsonContent.tests = <<<<>>>>
    THEN [ok |-> FALSE,
          error |-> "Failed to parse CTRF report: "
                    \o "Error: Invalid CTRF format: missing results or tests"]
    ELSE [ok |-> TRUE, error |-> ""]

parseReport(jsonContent) ==
    IF ~jsonContent.parses
    THEN [ok |-> FALSE, error |-> "Failed to parse CTRF report: " \o "SyntaxError"]
    ELSE IF ~jsonContent.hasResults \/ jsonContent.tests = <<>>
    THEN [ok |-> FALSE,
          error |-> "Failed to parse CTRF report: "
                    \o "Error: Invalid CTRF format: missing results or tests"]
    ELSE [ok |-> TRUE, error |-> ""]

extractTests(report) == IF report.tests # <<>> THEN report.tests[1] ELSE <<>>

-----------------------------------------------------------------------------
(* FlakyDetector.runDetection *)

withRunNumber_replaces(customFields, runNumber) ==
    [k \in {"runNumber"} |-> runNumber]

\* { ...test.customFields, runNumber }
withRunNumber(customFields, runNumber) ==
    LET old == IF customFields = <<>> THEN [k \in {} |-> 0] ELSE customFields[1]
    IN  [k \in DOMAIN old \cup {"runNumber"} |->
            IF k = "runNumber" THEN runNumber ELSE old[k]]

\* the tests of one report as collectRunResults pushes them
tagged(tests, runNumber) ==
    [k \in 1..Len(tests) |->
        [tests[k] EXCEPT !.customFields = <<withRunNumber(@, runNumber)>>]]

collectRunResults_trustsSummary(runs, file, runNumber) ==
    IF file = <<>> THEN [allTestRuns |-> runs, outcome |-> "not found"]
    ELSE IF ~parseReport(file[1]).ok THEN [allTestRuns |-> runs, outcome |-> "error"]
    ELSE IF file[1].summary = <<>> \/ file[1].summary[1].tests # Len(extractTests(file[1]))
    THEN [allTestRuns |-> runs, outcome |-> "error"]
    ELSE [allTestRuns |-> runs \o tagged(extractTests(file[1]), runNumber),
          outcome |-> "collected"]

collectRunResults(runs, file, runNumber) ==
    IF file = <<>> THEN [allTestRuns |-> runs, outcome |-> "not found"]
    ELSE IF ~parseReport(file[1]).ok THEN [allTestRuns |-> runs, outcome |-> "error"]
    ELSE LET tests == tagged(extractTests(file[1]), runNumber)
         IN  [allTestRuns |-> runs \o tests,
              \* report.results.summary.passed throws when there is no summary
              outcome |-> IF file[1].summary = <<>> THEN "error" ELSE "collected"]

\* no test process has run in the current cycle yet
noProcess == [threw |-> FALSE, wroteReport |-> FALSE]

\* main: flakyTests.length > 0 ? process.exit(1) : process.exit(0)
exitCodeOf(stats) ==
    IF Len(SelectSeq(stats, LAMBDA s : s.isFlaky)) > 0 THEN 1 ELSE 0

Init ==
    /\ config \in Configs
    /\ allTestRuns = <<>>
    /\ numberOfRuns \in 0..MaxRuns
    /\ i = 1
    /\ pc = IF 1 <= numberOfRuns THEN "exec" ELSE "analyze"
    /\ reportFile = <<>>
    /\ statistics = <<>>
    /\ console = <<>>
    /\ testProcess = noProcess
    /\ exitCode = -1
    /\ fn = [totalRuns |-> 0, failed |-> 0, failureRate |-> Num(0), durationVariance |-> Num(0)]
    /\ ret = [step |-> "idle", isFlaky |-> FALSE, confidence |-> Num(0), status |-> ""]

\* execSync: the test process of cycle i writes its report
\* (execSync throws when the process exits non-zero; the catch only logs)
ExecWritesReport ==
    /\ pc = "exec"
    /\ \E c \in FileContents : reportFile' = <<c>>
    /\ \E threw \in BOOLEAN : testProcess' = [threw |-> threw, wroteReport |-> TRUE]
    /\ pc' = "collect"
    /\ UNCHANGED <<config, allTestRuns, numberOfRuns, i, statistics, console, exitCode, fn, ret>>

\* execSync: the test process of cycle i ends without writing a report
ExecWritesNothing ==
    /\ pc = "exec"
    /\ \E threw \in BOOLEAN : testProcess' = [threw |-> threw, wroteReport |-> FALSE]
    /\ pc' = "collect"
    /\ UNCHANGED <<config, allTestRuns, numberOfRuns, i, reportFile, statistics, console,
                   exitCode, fn, ret>>

CollectRunResults_stopsOnFailure ==
    /\ pc = "collect"
    /\ LET r == collectRunResults(allTestRuns, reportFile, i)
       IN  /\ allTestRuns' = r.allTestRuns
           /\ console' = Append(console, r.outcome)
           /\ pc' = IF r.outcome # "collected" THEN "exited"
                    ELSE IF i + 1 <= numberOfRuns THEN "exec" ELSE "analyze"
           /\ exitCode' = IF r.outcome # "collected" THEN 2 ELSE exitCode
    /\ i' = i + 1
    /\ testProcess' = noProcess
    /\ UNCHANGED <<config, numberOfRuns, reportFile, statistics, fn, ret>>

\* this.collectRunResults(i); await this.sleep(1000); i++
CollectRunResults ==
    /\ pc = "collect"
    /\ LET r == collectRunResults(allTestRuns, reportFile, i)
       IN  /\ allTestRuns' = r.allTestRuns
           /\ console' = Append(console, r.outcome)
    /\ i' = i + 1
    /\ testProcess' = noProcess
    /\ pc' = IF i + 1 <= numberOfRuns THEN "exec" ELSE "analyze"
    /\ UNCHANGED <<config, numberOfRuns, reportFile, statistics, exitCode, fn, ret>>

AnalyzeResults_afterEachCycle ==
    /\ pc \in {"exec", "analyze"}
    /\ statistics # analyzeResults(config, allTestRuns) \/ pc = "analyze"
    /\ statistics' = analyzeResults(config, allTestRuns)
    /\ pc' = IF pc = "analyze" THEN "done" ELSE pc
    /\ UNCHANGED <<config, allTestRuns, numberOfRuns, i, reportFile, console, testProcess, exitCode, fn, ret>>

\* return this.analyzeResults()
AnalyzeResults ==
    /\ pc = "analyze"
    /\ statistics' = analyzeResults(config, allTestRuns)
    /\ pc' = "done"
    /\ UNCHANGED <<config, allTestRuns, numberOfRuns, i, reportFile, console, testProcess, exitCode, fn, ret>>

\* main after runDetection returned: reports, summary, process.exit
MainExit ==
    /\ pc = "done"
    /\ ret' = [step |-> "reports",
               status |-> [k \in 1..Len(statistics) |-> csvStatus(statistics[k])],
               markdown |-> markdownSummary(statistics),
               summary |-> consoleSummary(statistics)]
    /\ exitCode' = exitCodeOf(statistics)
    /\ pc' = "exited"
    /\ UNCHANGED <<config, allTestRuns, numberOfRuns, i, reportFile, statistics, console,
                   testProcess, fn>>

\* main: exportRawData or generateReports throws (a file cannot be written);
\* the catch logs the error and calls process.exit(2)
MainCatch ==
    /\ pc = "done"
    /\ console' = Append(console, "Error during detection")
    /\ exitCode' = 2
    /\ pc' = "exited"
    /\ UNCHANGED <<config, allTestRuns, numberOfRuns, i, reportFile, statistics,
                   testProcess, fn, ret>>

Next ==
    \/ ExecWritesReport
    \/ ExecWritesNothing
    \/ CollectRunResults
    \/ AnalyzeResults
    \/ MainExit
    \/ MainCatch

Spec == Init /\ [][Next]_vars

-----------------------------------------------------------------------------
(* Direct calls of the classification and scoring functions, as made by    *)
(* calculateTestStatistics for one bucket and by the CSV report for the    *)
(* resulting record                                                        *)

ClassifyConfigs ==
    { defaultConfig,
      [minRuns |-> 5, flakyThresholdMin |-> Rat(2, 10), flakyThresholdMax |-> Rat(8, 10),
       durationVarianceThreshold |-> Rat(3, 10)],
      [minRuns |-> 10, flakyThresholdMin |-> Rat(1, 10), flakyThresholdMax |-> Rat(95, 100),
       durationVarianceThreshold |-> Num(1)],
      [minRuns |-> 0, flakyThresholdMin |-> Num(0), flakyThresholdMax |-> Num(1),
       durationVarianceThreshold |-> Num(0)] }

\* squares of the coefficients of variation 0, 0.3, 0.5, 0.6 and 1
VarianceSamples == { Rat(k * k, 100) : k \in {0, 3, 5, 6, 10} }

InitClassify ==
    /\ config \in ClassifyConfigs
    /\ allTestRuns = <<>>
    /\ numberOfRuns = 0
    /\ i = 1
    /\ pc = "call"
    /\ reportFile = <<>>
    /\ statistics = <<>>
    /\ console = <<>>
    /\ testProcess = noProcess
    /\ exitCode = -1
    /\ \E totalRuns \in 0..MaxTotalRuns, failed \in 0..MaxTotalRuns, v \in VarianceSamples :
          /\ failed <= totalRuns
          /\ v # Num(0) => totalRuns >= 2
          /\ fn = [totalRuns |-> totalRuns, failed |-> failed,
                   failureRate |-> rateOf(failed, totalRuns), durationVariance |-> v]
    /\ ret = [step |-> "args", isFlaky |-> FALSE, confidence |-> Num(0), status |-> ""]

CallIsTestFlaky ==
    /\ ret.step = "args"
    /\ ret' = [ret EXCEPT !.step = "isTestFlaky",
                          !.isFlaky = isTestFlaky(config, fn.totalRuns, fn.failureRate,
                                                  fn.durationVariance)]
    /\ UNCHANGED <<config, allTestRuns, numberOfRuns, i, pc, reportFile, statistics, console, testProcess, exitCode, fn>>

CallCalculateConfidence ==
    /\ ret.step = "isTestFlaky"
    /\ ret' = [ret EXCEPT !.step = "calculateConfidence",
                          !.confidence = calculateConfidence(config, fn.totalRuns,
                                                             fn.failureRate, fn.durationVariance)]
    /\ UNCHANGED <<config, allTestRuns, numberOfRuns, i, pc, reportFile, statistics, console, testProcess, exitCode, fn>>

CallCsvStatus ==
    /\ ret.step = "calculateConfidence"
    /\ ret' = [ret EXCEPT !.step = "status",
                          !.status = csvStatus([isFlaky |-> ret.isFlaky,
                                                failureRate |-> fn.failureRate])]
    /\ UNCHANGED <<config, allTestRuns, numberOfRuns, i, pc, reportFile, statistics, console, testProcess, exitCode, fn>>

NextClassify ==
    \/ CallIsTestFlaky
    \/ CallCalculateConfidence
    \/ CallCsvStatus

SpecClassify == InitClassify /\ [][NextClassify]_vars

-----------------------------------------------------------------------------
(* Properties of classification and confidence (specification SpecClassify). *)
(* The expected values are written with integer arithmetic on the counts,  *)
(* independently of the operators above.                                   *)

CallRuns == IF fn.totalRuns = 0 THEN 1 ELSE fn.totalRuns

\* lo < failed / totalRuns < hi, both strict
RateStrictlyBetween(lo, hi) ==
    /\ lo.n * CallRuns < fn.failed * lo.d
    /\ fn.failed * hi.d < hi.n * CallRuns

\* failed / totalRuns >= 0.9
RateAtLeastNineTenths == 10 * fn.failed >= 9 * CallRuns

\* durationVariance > durationVarianceThreshold, strict
VarianceAboveThreshold ==
    LET t == config.durationVarianceThreshold
    IN  fn.durationVariance.n * t.d * t.d > t.n * t.n * fn.durationVariance.d

Statuses == {"Stable", "Failing", "Unstable", "Flaky"}

\* C1: a bucket with totalRuns < minRuns gives isFlaky = FALSE and is
\* presented as Insufficient-data, never as Stable, Failing, Unstable or Flaky.
C1_InsufficientDataBelowMinRuns ==
    (ret.step = "status" /\ fn.totalRuns >= 1 /\ fn.totalRuns < config.minRuns)
        => (ret.isFlaky = FALSE /\ ret.status \notin Statuses)

C5_ConfidenceBoundedMonotone ==
    ret.step \in {"calculateConfidence", "status"}
        => /\ 0 <= ret.confidence.n
           /\ ret.confidence.n <= ret.confidence.d
           /\ LET more == calculateConfidence(config, fn.totalRuns + 1, fn.failureRate,
                                              fn.durationVariance)
              IN  ret.confidence.n * more.d <= more.n * ret.confidence.d

C5_Witness ==
    /\ ret.step = "calculateConfidence"
    /\ fn.totalRuns = MaxTotalRuns
    /\ fn.failed * 2 = fn.totalRuns
    /\ VarianceAboveThreshold
    /\ ret.confidence = Num(1)

\* C6: confidence = min(1, 0.4 * min(totalRuns / 20, 1)
\*                         + (0.3 if 0.2 < failureRate < 0.8)
\*                         + (0.3 if durationVariance > threshold)),
\* here in thousandths; 10 runs with 5 failures and a variance within the
\* threshold give exactly 0.5.
C6_ConfidenceFormula ==
    ret.step \in {"calculateConfidence", "status"}
        => LET sample  == IF fn.totalRuns >= 20 THEN 400 ELSE 20 * fn.totalRuns
               pattern == IF RateStrictlyBetween(Rat(2, 10), Rat(8, 10)) THEN 300 ELSE 0
               timing  == IF VarianceAboveThreshold THEN 300 ELSE 0
               sum     == sample + pattern + timing
               expected == IF sum > 1000 THEN 1000 ELSE sum
           IN  /\ ret.confidence.n * 1000 = expected * ret.confidence.d
               /\ ( /\ fn.totalRuns = 10
                    /\ fn.failed = 5
                    /\ ~VarianceAboveThreshold ) => ret.confidence = Rat(1, 2)

C6_Witness ==
    /\ ret.step = "calculateConfidence"
    /\ fn.totalRuns = 10
    /\ fn.failed = 2
    /\ ~VarianceAboveThreshold
    /\ ret.confidence = Rat(2, 10)

-----------------------------------------------------------------------------
(* Properties of identity, grouping and counting (specification Spec) *)

Runs == 1..Len(allTestRuns)

\* the (file path, suite path, test name) of the j-th ingested observation
Triple(j) == <<allTestRuns[j].filePath, allTestRuns[j].suite, allTestRuns[j].name>>

\* the ingested observations whose computed identity is testId
Members(testId) == {j \in Runs : getTestId(allTestRuns[j]) = testId}

RECURSIVE SumOfTotalRuns(_)
SumOfTotalRuns(records) ==
    IF records = <<>> THEN 0 ELSE Head(records).totalRuns + SumOfTotalRuns(Tail(records))

RECURSIVE SumOfSizes(_)
SumOfSizes(grouped) ==
    IF grouped = <<>> THEN 0 ELSE Len(Head(grouped).tests) + SumOfSizes(Tail(grouped))

\* C7: grouping partitions the ingested observations: no bucket is empty, no
\* two buckets share an identity, each bucket holds exactly the observations
\* of its identity, the sizes add up to the number of observations, and the
\* analysis returns one record per identity whose totalRuns add up likewise.
C7_GroupingIsPartition ==
    LET grouped == groupTestsByIdentifier(allTestRuns)
    IN  /\ \A k \in 1..Len(grouped) : grouped[k].tests # <<>>
        /\ \A k, m \in 1..Len(grouped) : k # m => grouped[k].testId # grouped[m].testId
        /\ \A k \in 1..Len(grouped) :
              grouped[k].tests =
                  SelectSeq(allTestRuns, LAMBDA t : getTestId(t) = grouped[k].testId)
        /\ \A j \in Runs : \E k \in 1..Len(grouped) : grouped[k].testId = getTestId(allTestRuns[j])
        /\ SumOfSizes(grouped) = Len(allTestRuns)
        /\ pc = "done" =>
              /\ \A k, m \in 1..Len(statistics) :
                    k # m => statistics[k].testId # statistics[m].testId
              /\ {statistics[k].testId : k \in 1..Len(statistics)}
                    = {getTestId(allTestRuns[j]) : j \in Runs}
              /\ SumOfTotalRuns(statistics) = Len(allTestRuns)

C7_Witness ==
    /\ pc = "done"
    /\ Len(allTestRuns) >= 3
    /\ Len(statistics) >= 2
    /\ \E k \in 1..Len(statistics) : statistics[k].totalRuns >= 2

\* C8: observations with the same (file path, suite path, test name) get the
\* same identity and are counted in the same record, whatever their other
\* fields; an absent suite counts as "default", an absent file as "unknown".
C8_IdentityFromTripleOnly ==
    /\ \A j, k \in Runs : Triple(j) = Triple(k) =>
          getTestId(allTestRuns[j]) = getTestId(allTestRuns[k])
    /\ \A j \in Runs :
          /\ allTestRuns[j].suite = <<>> =>
                getTestId(allTestRuns[j])
                    = getTestId([allTestRuns[j] EXCEPT !.suite = <<"default">>])
          /\ allTestRuns[j].filePath = <<>> =>
                getTestId(allTestRuns[j])
                    = getTestId([allTestRuns[j] EXCEPT !.filePath = <<"unknown">>])
    /\ pc = "done" =>
          \A j \in Runs : \E k \in 1..Len(statistics) :
              /\ statistics[k].testId = getTestId(allTestRuns[j])
              /\ statistics[k].totalRuns >= Cardinality({m \in Runs : Triple(m) = Triple(j)})

C8_Witness ==
    /\ pc = "done"
    /\ \E j, k \in Runs :
          /\ Triple(j) = Triple(k)
          /\ allTestRuns[j].status # allTestRuns[k].status
          /\ allTestRuns[j].duration # allTestRuns[k].duration
          /\ allTestRuns[j].customFields # allTestRuns[k].customFields
    /\ \E j \in Runs : allTestRuns[j].suite = <<>> /\ allTestRuns[j].filePath = <<>>

\* C9: observations whose (file path, suite path, test name) differ get
\* different identities.
C9_DistinctTriplesDistinctIds ==
    \A j, k \in Runs : Triple(j) # Triple(k) =>
        getTestId(allTestRuns[j]) # getTestId(allTestRuns[k])

\* C10: in every record totalRuns is the bucket size, passed / failed /
\* skipped count the observations of that status, the remainder is the
\* pending and other observations, failureRate = failed / totalRuns,
\* successRate = passed / totalRuns, both are >= 0 and their sum is <= 1.
C10_CountsAndRates ==
    pc = "done" =>
        \A k \in 1..Len(statistics) :
            LET r == statistics[k]
                bucket == Members(r.testId)
                with(status) == Cardinality({j \in bucket : allTestRuns[j].status = status})
            IN  /\ r.totalRuns = Cardinality(bucket)
                /\ r.passed = with("passed")
                /\ r.failed = with("failed")
                /\ r.skipped = with("skipped")
                /\ r.totalRuns = r.passed + r.failed + r.skipped + with("pending") + with("other")
                /\ r.failureRate.n * r.totalRuns = r.failed * r.failureRate.d
                /\ r.successRate.n * r.totalRuns = r.passed * r.successRate.d
                /\ r.failureRate.d > 0 /\ r.successRate.d > 0
                /\ r.failureRate.n >= 0 /\ r.successRate.n >= 0
                /\ r.failureRate.n * r.successRate.d + r.successRate.n * r.failureRate.d
                      <= r.failureRate.d * r.successRate.d

C10_Witness ==
    /\ pc = "done"
    /\ \E k \in 1..Len(statistics) :
          /\ statistics[k].totalRuns >= 2
          /\ statistics[k].passed >= 1
          /\ statistics[k].passed + statistics[k].failed + statistics[k].skipped
                < statistics[k].totalRuns
    /\ \E k \in 1..Len(statistics) : statistics[k].failed >= 1 /\ statistics[k].passed >= 1

-----------------------------------------------------------------------------
(* The analysis of one test observed in up to MaxBucket cycles, each cycle  *)
(* having reported that single test (specification SpecStats)               *)

MaxBucket == 4

BucketPool ==
    { Obs("t", "passed",  100, <<"s">>, <<"f">>, <<>>, <<>>, <<>>),
      Obs("t", "passed",  400, <<"s">>, <<"f">>, <<"a">>, <<>>, <<>>),
      Obs("t", "failed",  100, <<"s">>, <<"f">>, <<"a">>, <<>>, <<>>),
      Obs("t", "failed",  400, <<"s">>, <<"f">>, <<"b">>, <<>>, <<>>),
      Obs("t", "failed",  0,   <<"s">>, <<"f">>, <<"">>, <<>>, <<>>),
      Obs("t", "failed",  300, <<"s">>, <<"f">>, <<>>, <<>>, <<>>),
      Obs("t", "skipped", 0,   <<"s">>, <<"f">>, <<>>, <<>>, <<>>),
      Obs("t", "pending", 400, <<"s">>, <<"f">>, <<"b">>, <<>>, <<>>) }

InitStats ==
    /\ config \in Configs
    /\ \E ts \in SeqsUpTo(BucketPool, MaxBucket) :
          /\ allTestRuns = [k \in 1..Len(ts) |-> tagged(<<ts[k]>>, k)[1]]
          /\ numberOfRuns = Len(ts)
          /\ i = Len(ts) + 1
          /\ reportFile = IF ts = <<>> THEN <<>>
                          ELSE <<Content(TRUE, TRUE, <<summaryOf(<<ts[Len(ts)]>>)>>,
                                         <<<<ts[Len(ts)]>>>>)>>
          /\ console = [k \in 1..Len(ts) |-> "collected"]
    /\ pc = "analyze"
    /\ statistics = <<>>
    /\ testProcess = noProcess
    /\ exitCode = -1
    /\ fn = [totalRuns |-> 0, failed |-> 0, failureRate |-> Num(0), durationVariance |-> Num(0)]
    /\ ret = [step |-> "idle", isFlaky |-> FALSE, confidence |-> Num(0), status |-> ""]

NextStats ==
    \/ AnalyzeResults
    \/ MainExit

SpecStats == InitStats /\ [][NextStats]_vars

-----------------------------------------------------------------------------
(* Properties of the per-record statistics *)

\* the observations of one identity, in ingestion order
BucketOf(testId) == SelectSeq(allTestRuns, LAMBDA t : getTestId(t) = testId)

\* those with a duration > 0
TimedOf(testId) == SelectSeq(BucketOf(testId), LAMBDA t : t.duration > 0)

RECURSIVE SumDurations(_)
SumDurations(tests) ==
    IF tests = <<>> THEN 0 ELSE Head(tests).duration + SumDurations(Tail(tests))

RECURSIVE SumSquaredDurations(_)
SumSquaredDurations(tests) ==
    IF tests = <<>> THEN 0
    ELSE Head(tests).duration * Head(tests).duration + SumSquaredDurations(Tail(tests))

\* C11: durationVariance >= 0; it is 0 when fewer than 2 observations of the
\* bucket have duration > 0; otherwise it is the population standard
\* deviation over the mean of those durations (here squared:
\* (n * sum(d^2) - sum(d)^2) / sum(d)^2), which is 0 exactly when they are
\* all equal.
C11_DurationVariance ==
    pc = "done" =>
        \A k \in 1..Len(statistics) :
            LET dv == statistics[k].durationVariance
                timed == TimedOf(statistics[k].testId)
                n == Len(timed)
                S == SumDurations(timed)
                Q == SumSquaredDurations(timed)
            IN  /\ dv.n >= 0 /\ dv.d > 0
                /\ n < 2 => dv = Num(0)
                /\ n >= 2 => dv = Rat(n * Q - S * S, S * S)
                /\ n >= 2 => ( dv = Num(0) <=>
                                 \A a, b \in 1..n : timed[a].duration = timed[b].duration )

C11_Witness ==
    /\ pc = "done"
    /\ \E k \in 1..Len(statistics) :
          /\ statistics[k].durationVariance # Num(0)
          /\ Len(TimedOf(statistics[k].testId)) >= 3
          /\ Len(TimedOf(statistics[k].testId)) < statistics[k].totalRuns

\* position in the bucket of the first failed observation carrying msg
FirstFailureWith(bucket, msg) ==
    CHOOSE j \in 1..Len(bucket) :
        /\ bucket[j].status = "failed" /\ bucket[j].message = <<msg>>
        /\ \A m \in 1..(j - 1) : ~(bucket[m].status = "failed" /\ bucket[m].message = <<msg>>)

\* C12: failureMessages lists the distinct non-empty messages of the failed
\* observations of the bucket, each once, in order of first occurrence;
\* messages of observations with another status are not collected.
C12_FailureMessages ==
    pc = "done" =>
        \A k \in 1..Len(statistics) :
            LET msgs == statistics[k].failureMessages
                bucket == BucketOf(statistics[k].testId)
            IN  /\ {msgs[m] : m \in 1..Len(msgs)}
                      = {bucket[j].message[1] :
                            j \in {x \in 1..Len(bucket) : /\ bucket[x].status = "failed"
                                                          /\ bucket[x].message # <<>>
                                                          /\ bucket[x].message # <<"">>}}
                /\ \A a, b \in 1..Len(msgs) : a # b => msgs[a] # msgs[b]
                /\ \A a, b \in 1..Len(msgs) :
                      a < b => FirstFailureWith(bucket, msgs[a]) < FirstFailureWith(bucket, msgs[b])

C12_Witness ==
    /\ pc = "done"
    /\ \E k \in 1..Len(statistics) :
          /\ statistics[k].failureMessages = <<"b", "a">>
          /\ statistics[k].failed >= 3
          /\ \E j \in Runs : allTestRuns[j].status # "failed" /\ Truthy(allTestRuns[j].message)

\* two observations that differ at most in customFields (the run number)
SameObservation(a, b) == [a EXCEPT !.customFields = <<>>] = [b EXCEPT !.customFields = <<>>]

\* the session ingested one list of observations and then the same list again
IngestedTwice ==
    /\ Len(allTestRuns) >= 2
    /\ Len(allTestRuns) % 2 = 0
    /\ \A j \in 1..(Len(allTestRuns) \div 2) :
          SameObservation(allTestRuns[j], allTestRuns[j + Len(allTestRuns) \div 2])

Identities == {getTestId(allTestRuns[j]) : j \in Runs}

\* C14: in the returned list no non-flaky record precedes a flaky one, within
\* the flaky records and within the non-flaky records failureRate does not
\* increase, and the list holds exactly one record per identity, the one
\* computed from that identity's bucket.
C14_SortedPermutation ==
    pc = "done" =>
        /\ \A a, b \in 1..Len(statistics) :
              a < b => /\ ~(~statistics[a].isFlaky /\ statistics[b].isFlaky)
                       /\ statistics[a].isFlaky = statistics[b].isFlaky
                            => RLe(statistics[b].failureRate, statistics[a].failureRate)
        /\ Len(statistics) = Cardinality(Identities)
        /\ \A id \in Identities :
              \E k \in 1..Len(statistics) :
                  statistics[k] = calculateTestStatistics(config, id, BucketOf(id))

C14_Witness ==
    /\ pc = "done"
    /\ Len(statistics) >= 2
    /\ statistics[1].isFlaky
    /\ ~statistics[Len(statistics)].isFlaky
    /\ statistics[1].testId # getTestId(allTestRuns[1])

-----------------------------------------------------------------------------
(* Direct calls of CTRFParser.parseReport and extractTests on the text of  *)
(* a report file (specification SpecParse)                                  *)

InitParse ==
    /\ config = defaultConfig
    /\ allTestRuns = <<>>
    /\ numberOfRuns = 0
    /\ i = 1
    /\ pc = "call"
    /\ reportFile = <<>>
    /\ statistics = <<>>
    /\ console = <<>>
    /\ testProcess = noProcess
    /\ exitCode = -1
    /\ fn \in FileContents
    /\ ret = [step |-> "args", ok |-> FALSE, error |-> "", tests |-> <<>>]

CallParseReport ==
    /\ ret.step = "args"
    /\ ret' = [ret EXCEPT !.step = "parseReport",
                          !.ok = parseReport(fn).ok,
                          !.error = parseReport(fn).error]
    /\ UNCHANGED <<config, allTestRuns, numberOfRuns, i, pc, reportFile, statistics, console,
                   testProcess, exitCode, fn>>

CallExtractTests ==
    /\ ret.step = "parseReport"
    /\ ret.ok
    /\ ret' = [ret EXCEPT !.step = "extractTests", !.tests = extractTests(fn)]
    /\ UNCHANGED <<config, allTestRuns, numberOfRuns, i, pc, reportFile, statistics, console,
                   testProcess, exitCode, fn>>

NextParse ==
    \/ CallParseReport
    \/ CallExtractTests

SpecParse == InitParse /\ [][NextParse]_vars

-----------------------------------------------------------------------------
(* Properties of parsing and of the collection step *)

\* text of the failure underneath a parseReport error
UnderlyingFailures ==
    { "SyntaxError", "Error: Invalid CTRF format: missing results or tests" }

\* C15: parseReport returns a report only when the text parses and the results
\* container, the summary and the test list are all present; otherwise it
\* fails, and the error message ends with the text of the underlying failure.
C15_ParseRequiresSummaryAndTests ==
    ret.step = "parseReport" =>
        /\ ret.ok <=> ( /\ fn.parses /\ fn.hasResults
                        /\ fn.summary # <<>> /\ fn.tests # <<>> )
        /\ ~ret.ok => \E cause \in UnderlyingFailures :
                          ret.error = "Failed to parse CTRF report: " \o cause

\* a report of valid shape whose test list is empty
EmptySuite(c) ==
    /\ c.parses /\ c.hasResults
    /\ c.summary # <<>>
    /\ c.tests = <<<<>>>>

\* C16: when the report file holds a report of valid shape with an empty test
\* list, the collection step parses it without failure, extracts an empty
\* sequence, logs the collection (no error path) and leaves the accumulated
\* observations unchanged.
C16_EmptySuiteAccepted ==
    [][ (pc = "collect" /\ reportFile # <<>> /\ EmptySuite(reportFile[1])) =>
            /\ parseReport(reportFile[1]).ok
            /\ extractTests(reportFile[1]) = <<>>
            /\ console' = Append(console, "collected")
            /\ allTestRuns' = allTestRuns ]_vars

C16_Witness ==
    /\ pc = "analyze"
    /\ reportFile # <<>> /\ EmptySuite(reportFile[1])
    /\ numberOfRuns = 2
    /\ console = <<"collected", "collected">>
    /\ allTestRuns # <<>>

\* a report with every required section
WellFormed(c) ==
    /\ c.parses /\ c.hasResults
    /\ c.summary # <<>>
    /\ c.tests # <<>>

\* C17: a cycle whose test process exits non-zero, or whose report is missing,
\* unparsable or malformed, does not end the session: every collection step
\* moves on to the next cycle (or, after cycle N, to the aggregation), it keeps
\* what was ingested before and appends a well-formed report in full, and
\* the aggregation runs after exactly N cycles and returns the records of
\* what was ingested.
C17_FailedCycleDoesNotEndSession ==
    [][ /\ pc = "collect" =>
              /\ i' = i + 1
              /\ Len(console') = i
              /\ pc' = IF i < numberOfRuns THEN "exec" ELSE "analyze"
              /\ Len(allTestRuns') >= Len(allTestRuns)
              /\ SubSeq(allTestRuns', 1, Len(allTestRuns)) = allTestRuns
              /\ (reportFile # <<>> /\ WellFormed(reportFile[1])) =>
                    allTestRuns' = allTestRuns \o tagged(reportFile[1].tests[1], i)
        /\ pc = "exec" => pc' = "collect"
        /\ pc = "analyze" =>
              /\ Len(console) = numberOfRuns
              /\ pc' = "done"
              /\ statistics' = analyzeResults(config, allTestRuns) ]_vars

C17_Witness ==
    /\ pc = "done"
    /\ numberOfRuns = 2
    /\ console = <<"error", "collected">>
    /\ \A j \in Runs : allTestRuns[j].customFields[1].runNumber = 2
    /\ statistics # <<>>

\* C18: a cycle whose test process writes no report adds no observation,
\* wherever in the session it occurs.
C18_NoReportNoObservations ==
    [][ (pc = "collect" /\ ~testProcess.wroteReport) => allTestRuns' = allTestRuns ]_vars

\* C19: a session of at least one cycle in which no cycle yielded a readable
\* report ends with the runner's error code 2.
C19_NothingReadableIsAnError ==
    ( /\ pc = "exited"
      /\ numberOfRuns >= 1
      /\ \A k \in 1..Len(console) : console[k] \in {"not found", "error"}
      /\ allTestRuns = <<>> )
        => exitCode = 2

\* summary sections a report may carry in place of its own
OtherSummaries ==
    { [tests |-> 0, passed |-> 0, failed |-> 0, skipped |-> 0],
      [tests |-> 1, passed |-> 1, failed |-> 0, skipped |-> 0],
      [tests |-> 2, passed |-> 0, failed |-> 2, skipped |-> 1] }

\* C20: the summary is advisory: a collection step ingests the same
\* observations whatever summary section the report carries, and the records
\* are computed from the ingested observations alone.
C20_SummaryIsAdvisory ==
    [][ /\ (pc = "collect" /\ reportFile # <<>>) =>
              \A s \in OtherSummaries :
                  collectRunResults(allTestRuns,
                                    <<[reportFile[1] EXCEPT !.summary = <<s>>]>>, i).allTestRuns
                      = allTestRuns'
        /\ pc = "analyze" => statistics' = analyzeResults(config, allTestRuns) ]_vars

C20_Witness ==
    /\ pc = "done"
    /\ reportFile # <<>>
    /\ reportFile[1].tests # <<>> /\ reportFile[1].tests[1] # <<>>
    /\ reportFile[1].summary = <<summaryOf(<<>>)>>
    /\ console[Len(console)] = "collected"
    /\ statistics # <<>>
    /\ statistics[1].totalRuns = 2

-----------------------------------------------------------------------------
(* The runner from its start: main loads the configuration file named on   *)
(* the command line, then runs the session (specification SpecMain)        *)

\* what the second command-line argument names
ConfigFiles == {"absent", "valid", "invalid"}

InitMain ==
    /\ config = defaultConfig
    /\ allTestRuns = <<>>
    /\ numberOfRuns = 0
    /\ i = 1
    /\ pc = "main"
    /\ reportFile = <<>>
    /\ statistics = <<>>
    /\ console = <<>>
    /\ testProcess = noProcess
    /\ exitCode = -1
    \* parseInt(args[0]) || 10 is never 0
    /\ \E n \in 1..MaxRuns, configFile \in ConfigFiles :
          fn = [numberOfRuns |-> n, configFile |-> configFile]
    /\ ret = [step |-> "idle", isFlaky |-> FALSE, confidence |-> Num(0), status |-> ""]

\* JSON.parse of the configuration file is outside main's try: when it throws,
\* main() rejects, main().catch(console.error) logs, and the process ends
\* with exit code 0
LoadConfig ==
    /\ pc = "main"
    /\ IF fn.configFile = "invalid"
       THEN /\ console' = Append(console, "uncaught")
            /\ exitCode' = 0
            /\ pc' = "exited"
            /\ UNCHANGED <<config, numberOfRuns>>
       ELSE /\ config' = IF fn.configFile = "valid"
                         THEN [defaultConfig EXCEPT !.minRuns = 2]
                         ELSE defaultConfig
            /\ numberOfRuns' = fn.numberOfRuns
            /\ pc' = "exec"
            /\ UNCHANGED <<console, exitCode>>
    /\ UNCHANGED <<allTestRuns, i, reportFile, statistics, testProcess, fn, ret>>

NextMain ==
    \/ LoadConfig
    \/ ExecWritesReport
    \/ ExecWritesNothing
    \/ CollectRunResults
    \/ AnalyzeResults
    \/ MainExit
    \/ MainCatch

SpecMain == InitMain /\ [][NextMain]_vars

-----------------------------------------------------------------------------
(* Properties of the runner *)

\* the run ended in an error: the last thing logged is the error
ErrorOccurred ==
    /\ console # <<>>
    /\ console[Len(console)] \in {"uncaught", "Error during detection"}

SomeFlaky == \E k \in 1..Len(statistics) : statistics[k].isFlaky

\* C21: the exit code is 0 exactly when detection and reporting completed and
\* no record is flaky, 1 exactly when they completed and some record is
\* flaky, and 2 whenever an error occurred, an invalid configuration file
\* included.
C21_ExitCodeReflectsOutcome ==
    pc = "exited" =>
        /\ exitCode = 0 <=> (~ErrorOccurred /\ ~SomeFlaky)
        /\ exitCode = 1 <=> (~ErrorOccurred /\ SomeFlaky)
        /\ ErrorOccurred => exitCode = 2

C30_SummaryCategoriesPartition ==
    (pc = "exited" /\ ret.step = "reports") =>
        /\ ret.markdown.flaky + ret.markdown.stable + ret.markdown.failing
              + ret.markdown.unstable = Len(statistics)
        /\ ret.summary.flaky + ret.summary.stable + ret.summary.failing <= Len(statistics)
        /\ ret.summary.flaky = ret.markdown.flaky
        /\ ret.summary.stable = ret.markdown.stable
        /\ ret.summary.failing = ret.markdown.failing

-----------------------------------------------------------------------------
(* Direct calls of FlakyDetector.calculateTestStatistics on a bucket       *)
(* (specification SpecRecord)                                               *)

\* firstTest = tests[0] is undefined for an empty bucket, and firstTest.name
\* throws a TypeError
calculateTestStatisticsThrows(tests) == tests = <<>>

InitRecord ==
    /\ config \in Configs
    /\ allTestRuns = <<>>
    /\ numberOfRuns = 0
    /\ i = 1
    /\ pc = "call"
    /\ reportFile = <<>>
    /\ statistics = <<>>
    /\ console = <<>>
    /\ testProcess = noProcess
    /\ exitCode = -1
    /\ \E ts \in SeqsUpTo(BucketPool, MaxBucket) : fn = [testId |-> "f::s::t", tests |-> ts]
    /\ ret = [step |-> "args"]

CallCalculateTestStatistics ==
    /\ ret.step = "args"
    /\ ret' = IF calculateTestStatisticsThrows(fn.tests)
              THEN [step |-> "threw", error |-> "TypeError"]
              ELSE [step |-> "calculateTestStatistics",
                    record |-> calculateTestStatistics(config, fn.testId, fn.tests)]
    /\ UNCHANGED <<config, allTestRuns, numberOfRuns, i, pc, reportFile, statistics, console,
                   testProcess, exitCode, fn>>

NextRecord == CallCalculateTestStatistics

SpecRecord == InitRecord /\ [][NextRecord]_vars

-----------------------------------------------------------------------------
(* Properties of the record of one bucket *)

\* the observations of the bucket with a duration > 0
TimedArgs == SelectSeq(fn.tests, LAMBDA t : t.duration > 0)

Untimed == {o \in BucketPool : o.duration = 0}

\* C25: averageDuration is the mean of the durations > 0 (0 when there are
\* none), and adding an observation of duration 0 to the bucket, at its end
\* or at its start, adds 1 to totalRuns and to the count of its status and
\* leaves averageDuration and durationVariance unchanged.
C25_ZeroDurationExcluded ==
    ret.step = "calculateTestStatistics" =>
        /\ ret.record.averageDuration =
              IF TimedArgs = <<>> THEN Num(0)
              ELSE Rat(SumDurations(TimedArgs), Len(TimedArgs))
        /\ \A z \in Untimed :
              \A more \in {Append(fn.tests, z), <<z>> \o fn.tests} :
                  LET r == calculateTestStatistics(config, fn.testId, more)
                  IN  /\ r.totalRuns = ret.record.totalRuns + 1
                      /\ r.passed = ret.record.passed + (IF z.status = "passed" THEN 1 ELSE 0)
                      /\ r.failed = ret.record.failed + (IF z.status = "failed" THEN 1 ELSE 0)
                      /\ r.skipped = ret.record.skipped + (IF z.status = "skipped" THEN 1 ELSE 0)
                      /\ r.averageDuration = ret.record.averageDuration
                      /\ r.durationVariance = ret.record.durationVariance

C25_Witness ==
    /\ ret.step = "calculateTestStatistics"
    /\ ret.record.durationVariance # Num(0)
    /\ ret.record.averageDuration = Num(250)
    /\ \E k \in 1..Len(fn.tests) : fn.tests[k].duration = 0

-----------------------------------------------------------------------------
(* Properties of the order of the session's steps and of the observations *)

\* C24: the records are computed once, by the aggregation pass, and only when
\* the collection step of each of the N cycles has returned; the test
\* process of a cycle starts only when the collection steps of all earlier
\* cycles have returned, and nothing is ingested or recomputed afterwards.
C24_AggregationAfterAllCycles ==
    [][ /\ (statistics' # statistics \/ pc' = "done") =>
              /\ pc = "analyze"
              /\ i = numberOfRuns + 1
              /\ Len(console) = numberOfRuns
              /\ statistics' = analyzeResults(config, allTestRuns)
        /\ pc' = "analyze" => (pc = "collect" /\ i = numberOfRuns)
        /\ pc = "exec" =>
              /\ i <= numberOfRuns
              /\ Len(console) = i - 1
              /\ testProcess = noProcess
              /\ pc' = "collect" /\ i' = i /\ allTestRuns' = allTestRuns
        /\ pc \in {"done", "exited"} =>
              /\ statistics' = statistics
              /\ allTestRuns' = allTestRuns
              /\ pc' = "exited" ]_vars

C24_Witness ==
    /\ pc = "done"
    /\ numberOfRuns = 2
    /\ i = 3
    /\ console = <<"collected", "collected">>
    /\ \E j \in Runs : allTestRuns[j].customFields[1].runNumber = 1
    /\ \E j \in Runs : allTestRuns[j].customFields[1].runNumber = 2
    /\ statistics # <<>>
    /\ statistics[1].totalRuns = 2

\* s with the elements at positions a and b exchanged
SwapAt(s, a, b) ==
    [k \in 1..Len(s) |-> IF k = a THEN s[b] ELSE IF k = b THEN s[a] ELSE s[k]]

SetOf(s) == {s[k] : k \in 1..Len(s)}

FirstOf(testId) == CHOOSE j \in Members(testId) : \A m \in Members(testId) : j <= m

\* C27: the observations are accumulated cycle by cycle, every bucket holds
\* the observations of its identity in ingestion order, and a record's name,
\* suite, file and tags are those of the earliest-ingested observation of its
\* identity (suite "default", file "unknown" and no tags where it has none).
C27_DisplayFieldsFromFirstObservation ==
    pc = "done" =>
        /\ \A a, b \in Runs :
              a < b => allTestRuns[a].customFields[1].runNumber
                          <= allTestRuns[b].customFields[1].runNumber
        /\ LET groupedTests == groupTestsByIdentifier(allTestRuns)
           IN  \A g \in 1..Len(groupedTests) :
                   groupedTests[g].tests = BucketOf(groupedTests[g].testId)
        /\ \A k \in 1..Len(statistics) :
              LET first == allTestRuns[FirstOf(statistics[k].testId)]
              IN  /\ statistics[k].name = first.name
                  /\ statistics[k].suite =
                        IF first.suite \in {<<>>, <<"">>} THEN "default" ELSE first.suite[1]
                  /\ statistics[k].file =
                        IF first.filePath \in {<<>>, <<"">>} THEN "unknown" ELSE first.filePath[1]
                  /\ statistics[k].tags = IF first.tags = <<>> THEN <<>> ELSE first.tags[1]

C27_Witness ==
    /\ pc = "done"
    /\ \E k \in 1..Len(statistics) :
          LET id == statistics[k].testId
          IN  /\ statistics[k].tags = <<"@slow">>
              /\ \E j \in Members(id) : j > FirstOf(id) /\ allTestRuns[j].tags = <<>>
              /\ allTestRuns[FirstOf(id)].customFields[1].runNumber = 1
              /\ \E j \in Members(id) : allTestRuns[j].customFields[1].runNumber = 2

\* the metadata bag of an observation as the report carries it
BagOf(test) == IF test.customFields = <<>> THEN [k \in {} |-> 0] ELSE test.customFields[1]

\* C28: a collection step that succeeds appends the observations of the
\* report, each with runNumber = i in its metadata bag, with every other key
\* of the bag kept and with name, status, duration, suite, file path, message
\* and tags unchanged; what was ingested before is not modified.
C28_RunNumberTagged ==
    [][ (pc = "collect" /\ console' = Append(console, "collected")) =>
            LET tests == reportFile[1].tests[1]
                n == Len(allTestRuns)
            IN  /\ Len(allTestRuns') = n + Len(tests)
                /\ SubSeq(allTestRuns', 1, n) = allTestRuns
                /\ \A k \in 1..Len(tests) :
                      LET t == allTestRuns'[n + k]
                      IN  /\ t.customFields[1].runNumber = i
                          /\ DOMAIN t.customFields[1] = DOMAIN BagOf(tests[k]) \cup {"runNumber"}
                          /\ \A key \in DOMAIN BagOf(tests[k]) \ {"runNumber"} :
                                t.customFields[1][key] = BagOf(tests[k])[key]
                          /\ t.name = tests[k].name
                          /\ t.status = tests[k].status
                          /\ t.duration = tests[k].duration
                          /\ t.suite = tests[k].suite
                          /\ t.filePath = tests[k].filePath
                          /\ t.message = tests[k].message
                          /\ t.tags = tests[k].tags ]_vars

C28_Witness ==
    /\ pc = "analyze"
    /\ console = <<"collected", "collected">>
    /\ Len(allTestRuns) >= 2
    /\ allTestRuns[1].customFields[1].runNumber = 1
    /\ \E j \in Runs :
          /\ DOMAIN allTestRuns[j].customFields[1] = {"retry", "runNumber"}
          /\ allTestRuns[j].customFields[1].retry = 1
          /\ allTestRuns[j].customFields[1].runNumber = 2

\* C29: a collection step that ends in its error path leaves the accumulated
\* observations as they were.
C29_ErrorPathIngestsNothing ==
    [][ (pc = "collect" /\ console' = Append(console, "error")) =>
            allTestRuns' = allTestRuns ]_vars

====
